---- MODULE Spec2Model ----
(***************************************************************************)
(* pyi4thrift/peg.py: the stub-file grammar, the Lark LALR recognizer      *)
(* built from it, the builder parse() that walks the parse tree into a     *)
(* PYI document, and the renderer compose() that writes a PYI document     *)
(* back to text.                                                           *)
(*                                                                         *)
(* Text is a string; a character of it is a string of length one.  A dict  *)
(* (Python keeps insertion order) is a sequence of [key, val] records with *)
(* distinct keys; a list is a sequence.                                    *)
(***************************************************************************)
EXTENDS Naturals, Sequences, FiniteSets

(***************************************************************************)
(* Strings                                                                 *)
(***************************************************************************)

Char(text, i) == SubSeq(text, i, i)

RECURSIVE ConcatAll(_)
\* "".join(parts)
ConcatAll(parts) ==
    IF parts = <<>> THEN "" ELSE Head(parts) \o ConcatAll(Tail(parts))

RECURSIVE Join(_, _)
\* sep.join(parts)
Join(parts, sep) ==
    IF parts = <<>> THEN ""
    ELSE IF Len(parts) = 1 THEN parts[1]
    ELSE parts[1] \o sep \o Join(Tail(parts), sep)

\* the characters str.rstrip() removes
PyWhitespace == {" ", "\t", "\n", "\r", "\f"}

RECURSIVE rstrip(_)
rstrip(text) ==
    IF Len(text) > 0 /\ Char(text, Len(text)) \in PyWhitespace
    THEN rstrip(SubSeq(text, 1, Len(text) - 1))
    ELSE text

(***************************************************************************)
(* The dataclasses                                                         *)
(***************************************************************************)

\* Parameter.annotation = None
None == [isNone |-> TRUE, name |-> "", type |-> ""]

Annotation(name, type) == [isNone |-> FALSE, name |-> name, type |-> type]

Parameter(annotation, default) == [annotation |-> annotation, default |-> default]

\* Parameter.__name__ (the getter)
ParameterName(param) ==
    IF ~param.annotation.isNone THEN param.annotation.name ELSE ""

Init_(params) == [params |-> params]

\* Struct, Union and Exc have the same three fields
Struct(name, annotations, init) ==
    [name |-> name, annotations |-> annotations, init |-> init]

Method(name, params, response) ==
    [name |-> name, params |-> params, response |-> response]

Service(name, methods) == [name |-> name, methods |-> methods]

ModuleAlias(alias) == [alias |-> alias]

Module(name, module_alias) == [name |-> name, module_alias |-> module_alias]

FromImport(name, modules) == [name |-> name, modules |-> modules]

KeyValue(name, value) == [name |-> name, value |-> value]

Const(name, value) == [name |-> name, value |-> value]

Enum(name, kvs) == [name |-> name, kvs |-> kvs]

PYI(imports, consts, enums, structs, unions, exceptions, services) ==
    [imports |-> imports, consts |-> consts, enums |-> enums,
     structs |-> structs, unions |-> unions, exceptions |-> exceptions,
     services |-> services]

\* PYI(): every section empty
EmptyPYI == PYI(<<>>, <<>>, <<>>, <<>>, <<>>, <<>>, <<>>)

(***************************************************************************)
(* dict                                                                    *)
(***************************************************************************)

DictKeys(d) == [i \in 1..Len(d) |-> d[i].key]

DictHas(d, k) == \E i \in 1..Len(d) : d[i].key = k

\* a store that puts a new key before the others
DictSetFront(d, k, v) ==
    IF DictHas(d, k)
    THEN [i \in 1..Len(d) |-> IF d[i].key = k THEN [key |-> k, val |-> v] ELSE d[i]]
    ELSE <<[key |-> k, val |-> v]>> \o d

\* a store that moves a key it holds already behind the others
DictSetMove(d, k, v) ==
    SelectSeq(d, LAMBDA e : e.key # k) \o <<[key |-> k, val |-> v]>>

\* d[k] = v: an existing key keeps its position and gets the new value, a
\* new key goes to the end
DictSet(d, k, v) ==
    IF DictHas(d, k)
    THEN [i \in 1..Len(d) |-> IF d[i].key = k THEN [key |-> k, val |-> v] ELSE d[i]]
    ELSE Append(d, [key |-> k, val |-> v])

DictGet(d, k) == d[CHOOSE i \in 1..Len(d) : d[i].key = k].val

(***************************************************************************)
(* compose: the renderer                                                   *)
(***************************************************************************)

Header == "# coding:utf-8"

ClassPrefix == "# noinspection PyPep8Naming, PyShadowingNames"

\* f"{module.name} as {module.module_alias.alias}", or module.name when the
\* alias is empty
ModuleText(module) ==
    IF module.module_alias.alias # ""
    THEN module.name \o " as " \o module.module_alias.alias
    ELSE module.name

\* f"from {pkg} import {', '.join(modules)}\n", pkg being the dict key
ImportLine(item) ==
    "from " \o item.key \o " import "
      \o Join([i \in 1..Len(item.val.modules) |-> ModuleText(item.val.modules[i])], ", ")
      \o "\n"

\* an imports part that ends in a blank line whether or not there are imports
ImportsPartBlank(pyi) ==
    ConcatAll([i \in 1..Len(pyi.imports) |-> ImportLine(pyi.imports[i])]) \o "\n"

\* if pyi.imports: one line per package, then a blank line
ImportsPart(pyi) ==
    IF pyi.imports # <<>>
    THEN ConcatAll([i \in 1..Len(pyi.imports) |-> ImportLine(pyi.imports[i])]) \o "\n"
    ELSE ""

\* if pyi.consts: one line per constant, then a blank line
ConstsPart(pyi) ==
    IF pyi.consts # <<>>
    THEN ConcatAll([i \in 1..Len(pyi.consts) |->
                     pyi.consts[i].name \o " = " \o pyi.consts[i].value \o "\n"])
           \o "\n"
    ELSE ""

EnumBlock(enum) ==
    ClassPrefix \o "\n"
      \o "class " \o enum.name \o "(Enum):\n"
      \o ConcatAll([i \in 1..Len(enum.kvs) |->
                      "    " \o enum.kvs[i].name \o " = " \o enum.kvs[i].value \o "\n"])
      \o "\n"

\* if pyi.enums: one block per enum, each followed by a blank line
EnumsPart(pyi) ==
    IF pyi.enums # <<>>
    THEN ConcatAll([i \in 1..Len(pyi.enums) |-> EnumBlock(pyi.enums[i])])
    ELSE ""

\* f"{param.__name__}: {param.annotation.type} = {param.default}"; the
\* attribute read param.annotation.type raises AttributeError on None
ParamRaises(param) == param.annotation.isNone

ParamText(param) ==
    ParameterName(param) \o ": " \o param.annotation.type \o " = " \o param.default

InitIndent == "                 "

\* the block of one struct, union or exception; marker is "(object)" or
\* "(TException)"
StructLikeBlock(struct, marker) ==
    ClassPrefix \o "\n"
      \o "class " \o struct.name \o marker \o ":\n"
      \o ConcatAll([i \in 1..Len(struct.annotations) |->
                      "    " \o struct.annotations[i].key \o ": "
                        \o struct.annotations[i].val.type \o "\n"])
      \o "\n    def __init__(self,\n"
      \o (IF struct.init.params # <<>>
          THEN Join([i \in 1..Len(struct.init.params) |->
                       InitIndent \o ParamText(struct.init.params[i])], ",\n")
                 \o ") -> None:\n"
          ELSE InitIndent \o ") -> None:\n")
      \o "        ...\n\n"

StructLikePart(structs, marker) ==
    IF structs # <<>>
    THEN ConcatAll([i \in 1..Len(structs) |-> StructLikeBlock(structs[i], marker)])
    ELSE ""

StructsPart(pyi) == StructLikePart(pyi.structs, "(object)")

UnionsPart(pyi) == StructLikePart(pyi.unions, "(object)")

ExceptionsPart(pyi) == StructLikePart(pyi.exceptions, "(TException)")

MethodBlock(item) ==
    "    def " \o item.key \o "(self, "
      \o (IF item.val.params # <<>>
          THEN Join([i \in 1..Len(item.val.params) |-> ParamText(item.val.params[i])], ", ")
          ELSE "")
      \o ") -> " \o item.val.response \o ":\n"
      \o "        ...\n\n"

ServiceBlock(service) ==
    ClassPrefix \o "\n"
      \o "class " \o service.name \o "(object):\n"
      \o ConcatAll([i \in 1..Len(service.methods) |-> MethodBlock(service.methods[i])])
      \o "\n"

ServicesPart(pyi) ==
    IF pyi.services # <<>>
    THEN ConcatAll([i \in 1..Len(pyi.services) |-> ServiceBlock(pyi.services[i])])
    ELSE ""

\* the constructor parameters compose reads of a struct-like list
StructLikeParams(structs) ==
    UNION {{structs[i].init.params[j] : j \in 1..Len(structs[i].init.params)}
             : i \in 1..Len(structs)}

\* the method parameters compose reads
ServiceParams(services) ==
    UNION {UNION {{services[i].methods[m].val.params[j]
                     : j \in 1..Len(services[i].methods[m].val.params)}
                    : m \in 1..Len(services[i].methods)}
             : i \in 1..Len(services)}

\* compose raises as soon as it formats a parameter without annotation
composeRaises(pyi) ==
    \E param \in StructLikeParams(pyi.structs) \cup StructLikeParams(pyi.unions)
                   \cup StructLikeParams(pyi.exceptions) \cup ServiceParams(pyi.services)
        : ParamRaises(param)

\* "".join(parts).rstrip() + "\n"
composeText(pyi) ==
    rstrip(Header \o "\n" \o ImportsPart(pyi) \o ConstsPart(pyi) \o EnumsPart(pyi)
             \o StructsPart(pyi) \o UnionsPart(pyi) \o ExceptionsPart(pyi)
             \o ServicesPart(pyi))
      \o "\n"

\* compose(pyi): the text, or the exception it raises
compose(pyi) ==
    IF composeRaises(pyi)
    THEN [ok |-> FALSE, error |-> "AttributeError", text |-> ""]
    ELSE [ok |-> TRUE, error |-> "", text |-> composeText(pyi)]

(***************************************************************************)
(* _PYI_GRAMMAR: the terminals and Lark's contextual lexer                 *)
(***************************************************************************)

Lower == {"a", "b", "c", "d", "e", "f", "g", "h", "i", "j", "k", "l", "m",
          "n", "o", "p", "q", "r", "s", "t", "u", "v", "w", "x", "y", "z"}

Upper == {"A", "B", "C", "D", "E", "F", "G", "H", "I", "J", "K", "L", "M",
          "N", "O", "P", "Q", "R", "S", "T", "U", "V", "W", "X", "Y", "Z"}

Digit == {"0", "1", "2", "3", "4", "5", "6", "7", "8", "9"}

\* \w
Word == Lower \cup Upper \cup Digit \cup {"_"}

\* the string terminals of the grammar, each with its text; Lark filters
\* their tokens out of the tree
StringTerminals ==
    {"HEADER", "FROM", "IMPORT", "COMMA", "AS", "EQUAL", "ENUM", "OBJECT",
     "TEXCEPTION", "COLON", "DEF", "SELF", "RPAR", "ARROW", "ELLIPSIS",
     "INITDEF", "ARROWNONE", "NOINSPECTION", "CLASS"}

StrLit(t) ==
    CASE t = "HEADER" -> "# coding:utf-8"
      [] t = "FROM" -> "from"
      [] t = "IMPORT" -> "import"
      [] t = "COMMA" -> ","
      [] t = "AS" -> "as"
      [] t = "EQUAL" -> "="
      [] t = "ENUM" -> "(Enum):"
      [] t = "OBJECT" -> "(object):"
      [] t = "TEXCEPTION" -> "(TException):"
      [] t = "COLON" -> ":"
      [] t = "DEF" -> "def"
      [] t = "SELF" -> "(self,"
      [] t = "RPAR" -> ")"
      [] t = "ARROW" -> "->"
      [] t = "ELLIPSIS" -> "  ..."
      [] t = "INITDEF" -> "def __init__(self,"
      [] t = "ARROWNONE" -> "-> None:"
      [] t = "NOINSPECTION" -> "# noinspection PyPep8Naming, PyShadowingNames"
      [] t = "CLASS" -> "class"

\* the regular-expression terminals: pkg and type are anonymous, IDENT,
\* VALUE and NEWLINE are named, WS_INLINE is ignored; Lark keeps the tokens
\* of all but WS_INLINE in the tree
RegexTerminals == {"PKG", "TYPE", "IDENT", "VALUE", "NEWLINE", "WS_INLINE"}

\* the characters a regular expression of the shape [first][rest]* takes
ReFirst(t) ==
    CASE t = "PKG" -> Lower \cup Upper \cup {"_", "."}
      [] t = "IDENT" -> Lower \cup Upper \cup {"_"}
      [] t = "TYPE" -> Word \cup {".", "[", "]"}
      [] t = "VALUE" -> Word \cup {"-", "'", ".", "\"", "{", "}"}
      [] t = "WS_INLINE" -> {" ", "\t"}

ReRest(t) ==
    CASE t = "PKG" -> Word \cup {".", "_"}
      [] t = "IDENT" -> Word \cup {".", "_"}
      [] t = "TYPE" -> Word \cup {".", "[", "]"}
      [] t = "VALUE" -> Word \cup {"-", "'", ".", "\"", "{", "}"}
      [] t = "WS_INLINE" -> {" ", "\t"}

RECURSIVE RunEnd(_, _, _)
\* the position after the longest run of characters of cls from position i
RunEnd(text, i, cls) ==
    IF i <= Len(text) /\ Char(text, i) \in cls THEN RunEnd(text, i + 1, cls) ELSE i

RECURSIVE NewlineEnd(_, _)
\* NEWLINE: (\r?\n)+, the position after its longest match from position i
NewlineEnd(text, i) ==
    IF i <= Len(text) /\ Char(text, i) = "\n" THEN NewlineEnd(text, i + 1)
    ELSE IF i < Len(text) /\ Char(text, i) = "\r" /\ Char(text, i + 1) = "\n"
    THEN NewlineEnd(text, i + 2)
    ELSE i

\* the position after terminal t's match at position i; i itself: no match
MatchEnd(t, text, i) ==
    IF t \in StringTerminals
    THEN IF i + Len(StrLit(t)) - 1 <= Len(text)
            /\ SubSeq(text, i, i + Len(StrLit(t)) - 1) = StrLit(t)
         THEN i + Len(StrLit(t)) ELSE i
    ELSE IF t = "NEWLINE" THEN NewlineEnd(text, i)
    ELSE IF i <= Len(text) /\ Char(text, i) \in ReFirst(t)
         THEN RunEnd(text, i + 1, ReRest(t)) ELSE i

\* Lark tries the terminals of a lexer in the order of its sort key
\* (-priority, -max_width, -len(pattern), name): the unbounded regular
\* expressions first, then the strings, longer before shorter
TerminalOrder ==
    <<"PKG", "IDENT", "VALUE", "TYPE", "WS_INLINE", "NEWLINE",
      "NOINSPECTION", "INITDEF", "HEADER", "TEXCEPTION", "OBJECT", "ARROWNONE",
      "ENUM", "IMPORT", "SELF", "ELLIPSIS", "CLASS", "FROM", "DEF", "ARROW",
      "AS", "COMMA", "EQUAL", "COLON", "RPAR">>

Rank(t) == CHOOSE k \in 1..Len(TerminalOrder) : TerminalOrder[k] = t

\* a string terminal whose whole text a regular expression matches is lexed
\* by that expression and retyped when the lexeme is exactly that text
\* (Lark's "unless" callback), among the terminals of the same lexer
Retype(t, lexeme, accepts) ==
    IF t \in RegexTerminals
       /\ \E s \in accepts \cap StringTerminals : StrLit(s) = lexeme
    THEN CHOOSE s \in accepts \cap StringTerminals : StrLit(s) = lexeme
    ELSE t

EndToken == "$END"

LexError == "$ERROR"

RECURSIVE Lex(_, _, _)
\* the next token at position i for a parser state that accepts the
\* terminals of `accepts`: [type, value, end]
Lex(text, i, accepts) ==
    LET cand == {t \in (accepts \ {EndToken}) \cup {"WS_INLINE"} : MatchEnd(t, text, i) > i}
    IN  IF i > Len(text)
        THEN [type |-> EndToken, value |-> "", end |-> i]
        ELSE IF cand = {}
        THEN [type |-> LexError, value |-> "", end |-> i]
        ELSE LET t == CHOOSE c \in cand : \A o \in cand : Rank(c) <= Rank(o)
                 e == MatchEnd(t, text, i)
             IN  IF t = "WS_INLINE" THEN Lex(text, e, accepts)
                 ELSE [type |-> Retype(t, SubSeq(text, i, e - 1), accepts),
                       value |-> SubSeq(text, i, e - 1), end |-> e]

(***************************************************************************)
(* _PYI_GRAMMAR: the rules, and _PARSER, Lark's LALR(1) parser for them    *)
(***************************************************************************)

\* the items of a rule: a terminal, a rule, item* or item?
T(name) == [t |-> "T", name |-> name, body |-> <<>>]

N(name) == [t |-> "N", name |-> name, body |-> <<>>]

Star(body) == [t |-> "STAR", name |-> "", body |-> body]

Opt(body) == [t |-> "OPT", name |-> "", body |-> body]

StructLikeRule(marker) ==
    <<N("class_prefix"), T("IDENT"), T(marker), T("NEWLINE"), N("annotations"),
      N("init"), T("NEWLINE")>>

Rule(name) ==
    CASE name = "start" ->
           <<N("header"), N("imports"), N("consts"), N("enums"), N("structs"),
             N("unions"), N("exceptions"), N("services")>>
      [] name = "header" -> <<T("HEADER"), T("NEWLINE")>>
      [] name = "imports" -> <<Star(<<N("from_import")>>)>>
      [] name = "from_import" ->
           <<T("FROM"), N("pkg"), T("IMPORT"), N("modules"), T("NEWLINE")>>
      [] name = "pkg" -> <<T("PKG")>>
      [] name = "modules" -> <<N("module"), Star(<<T("COMMA"), N("module")>>)>>
      [] name = "module" -> <<T("IDENT"), Opt(<<N("module_alias")>>)>>
      [] name = "module_alias" -> <<T("AS"), T("IDENT")>>
      [] name = "consts" -> <<Star(<<N("const")>>)>>
      [] name = "const" -> <<T("IDENT"), T("EQUAL"), Opt(<<N("value")>>), T("NEWLINE")>>
      [] name = "enums" -> <<Star(<<N("enum")>>)>>
      [] name = "enum" -> <<N("class_enum")>>
      [] name = "class_enum" ->
           <<N("class_prefix"), T("IDENT"), T("ENUM"), T("NEWLINE"), N("kvs")>>
      [] name = "kvs" -> <<Star(<<N("kv")>>)>>
      [] name = "kv" -> <<T("IDENT"), T("EQUAL"), Opt(<<N("value")>>), T("NEWLINE")>>
      [] name = "structs" -> <<Star(<<N("struct")>>)>>
      [] name = "struct" -> <<N("class_struct")>>
      [] name = "class_struct" -> StructLikeRule("OBJECT")
      [] name = "annotations" -> <<Star(<<N("annotation")>>)>>
      [] name = "annotation" -> <<T("IDENT"), T("COLON"), N("type")>>
      [] name = "unions" -> <<Star(<<N("union")>>)>>
      [] name = "union" -> <<N("class_union")>>
      [] name = "class_union" -> StructLikeRule("OBJECT")
      [] name = "exceptions" -> <<Star(<<N("exception")>>)>>
      [] name = "exception" -> <<N("class_exception")>>
      [] name = "class_exception" -> StructLikeRule("TEXCEPTION")
      [] name = "services" -> <<Star(<<N("service")>>)>>
      [] name = "service" -> <<N("class_service")>>
      [] name = "class_service" ->
           <<N("class_prefix"), T("IDENT"), T("OBJECT"), T("NEWLINE"), N("methods"),
             T("NEWLINE")>>
      [] name = "methods" -> <<Star(<<N("method")>>)>>
      [] name = "method" ->
           <<T("DEF"), T("IDENT"), T("SELF"), N("params"), T("RPAR"), T("ARROW"),
             N("type"), T("COLON"), T("NEWLINE"), T("ELLIPSIS"), T("NEWLINE")>>
      [] name = "params" -> <<Opt(<<N("param"), Star(<<T("COMMA"), N("param")>>)>>)>>
      [] name = "param" -> <<N("annotation"), T("EQUAL"), Opt(<<N("value")>>)>>
      [] name = "init" ->
           <<T("INITDEF"), N("params"), T("RPAR"), T("ARROWNONE"), T("NEWLINE"),
             T("ELLIPSIS"), T("NEWLINE")>>
      [] name = "class_prefix" -> <<T("NOINSPECTION"), T("NEWLINE"), T("CLASS")>>
      [] name = "type" -> <<T("TYPE")>>
      [] name = "value" -> <<T("VALUE")>>

RECURSIVE Nullable(_)
\* whether the items can derive the empty string
Nullable(items) ==
    \A k \in 1..Len(items) :
        CASE items[k].t = "T" -> FALSE
          [] items[k].t = "N" -> Nullable(Rule(items[k].name))
          [] OTHER -> TRUE

RECURSIVE First(_)
\* the terminals the items can start with
First(items) ==
    IF items = <<>> THEN {}
    ELSE LET it == Head(items)
         IN  CASE it.t = "T" -> {it.name}
               [] it.t = "N" ->
                    First(Rule(it.name))
                      \cup (IF Nullable(Rule(it.name)) THEN First(Tail(items)) ELSE {})
               [] OTHER -> First(it.body) \cup First(Tail(items))

\* the nodes of Lark's parse tree
Tree(data, children) ==
    [kind |-> "Tree", data |-> data, children |-> children, value |-> ""]

Token(type, value) ==
    [kind |-> "Token", data |-> type, children |-> <<>>, value |-> value]

\* the children a token leaves in the tree: the tokens of the anonymous
\* string terminals are filtered out
Kept(tok) ==
    IF tok.type \in StringTerminals THEN <<>> ELSE <<Token(tok.type, tok.value)>>

RECURSIVE ParseItems(_, _, _, _)
\* The parser on the items of a rule from position i, `follow` being the
\* terminals that may come after them in this state: [ok, pos, children].
\* The state's lexer accepts the terminals some action exists for.  Where
\* the LALR(1) table has both a shift and a reduce of an empty list for the
\* next token (the class prefix opens every kind of class block), Lark
\* resolves the conflict as the shift: an optional or repeated item is
\* entered whenever the next token can start it.
ParseItems(items, text, i, follow) ==
    IF items = <<>> THEN [ok |-> TRUE, pos |-> i, children |-> <<>>]
    ELSE
    LET it == Head(items)
        rest == Tail(items)
        accepts == First(items) \cup (IF Nullable(items) THEN follow ELSE {})
        after == First(rest) \cup (IF Nullable(rest) THEN follow ELSE {})
        tok == Lex(text, i, accepts)
        Then(r, kids, next, nextFollow) ==
            \* the result r of the first part, then the items `next`
            IF ~r.ok THEN [ok |-> FALSE, pos |-> r.pos, children |-> kids]
            ELSE LET q == ParseItems(next, text, r.pos, nextFollow)
                 IN  [ok |-> q.ok, pos |-> q.pos, children |-> kids \o q.children]
    IN  CASE it.t = "T" ->
               IF tok.type = it.name
               THEN Then([ok |-> TRUE, pos |-> tok.end], Kept(tok), rest, follow)
               ELSE [ok |-> FALSE, pos |-> i, children |-> <<>>]
          [] it.t = "N" ->
               LET r == ParseItems(Rule(it.name), text, i, after)
               IN  Then(r, <<Tree(it.name, r.children)>>, rest, follow)
          [] it.t = "OPT" ->
               IF tok.type \in First(it.body)
               THEN LET r == ParseItems(it.body, text, i, after)
                    IN  Then(r, r.children, rest, follow)
               ELSE ParseItems(rest, text, i, follow)
          [] it.t = "STAR" ->
               IF tok.type \in First(it.body)
               THEN LET r == ParseItems(it.body, text, i, accepts)
                    IN  Then(r, r.children, items, follow)
               ELSE ParseItems(rest, text, i, follow)

\* _PARSER.parse(text): the tree of the start rule when the whole text is
\* recognized, an UnexpectedInput error otherwise
PARSER_parse(text) ==
    LET r == ParseItems(Rule("start"), text, 1, {EndToken})
    IN  IF r.ok /\ Lex(text, r.pos, {EndToken}).type = EndToken
        THEN [ok |-> TRUE, tree |-> Tree("start", r.children)]
        ELSE [ok |-> FALSE, tree |-> Tree("start", <<>>)]

(***************************************************************************)
(* parse: the builder.  A Python index n is the index n + 1 here.          *)
(***************************************************************************)

IsTree(node, rule) == node.kind = "Tree" /\ node.data = rule

\* the text of a Token, "" for a Tree
_token_value(node) == IF node.kind = "Token" THEN node.value ELSE ""

_find_children(tree, rule) == SelectSeq(tree.children, LAMBDA child : IsTree(child, rule))

_parse_annotation(tree) ==
    Annotation(_token_value(tree.children[1]), _token_value(tree.children[2]))

\* tree.children[1] is read without a test: a param without default has one
\* child only (IndexError)
_parse_param(tree) ==
    Parameter(_parse_annotation(tree.children[1]), _token_value(tree.children[2]))

_parse_params(tree) ==
    LET params == _find_children(tree, "param")
    IN  [k \in 1..Len(params) |-> _parse_param(params[k])]

RECURSIVE _parse_annotations_loop(_, _)
_parse_annotations_loop(children, annotations) ==
    IF children = <<>> THEN annotations
    ELSE IF IsTree(Head(children), "annotation")
    THEN LET ann == _parse_annotation(Head(children))
         IN  _parse_annotations_loop(Tail(children), DictSet(annotations, ann.name, ann))
    ELSE _parse_annotations_loop(Tail(children), annotations)

_parse_annotations(tree) == _parse_annotations_loop(tree.children, <<>>)

RECURSIVE _parse_init_loop(_, _)
\* init.params is that of the last params child
_parse_init_loop(children, init) ==
    IF children = <<>> THEN init
    ELSE IF IsTree(Head(children), "params")
    THEN _parse_init_loop(Tail(children), Init_(_parse_params(Head(children))))
    ELSE _parse_init_loop(Tail(children), init)

_parse_init(tree) == _parse_init_loop(tree.children, Init_(<<>>))

RECURSIVE _parse_method_parts(_, _)
\* for part in child.children[1:]: a params tree sets params, a Token of any
\* type sets response
_parse_method_parts(parts, method) ==
    IF parts = <<>> THEN method
    ELSE LET part == Head(parts)
         IN  IF IsTree(part, "params")
             THEN _parse_method_parts(Tail(parts),
                                      [method EXCEPT !.params = _parse_params(part)])
             ELSE IF part.kind = "Token"
             THEN _parse_method_parts(Tail(parts), [method EXCEPT !.response = part.value])
             ELSE _parse_method_parts(Tail(parts), method)

RECURSIVE _parse_methods_loop(_, _)
_parse_methods_loop(children, methods) ==
    IF children = <<>> THEN methods
    ELSE IF IsTree(Head(children), "method")
    THEN LET child == Head(children)
             name == _token_value(child.children[1])
             method == _parse_method_parts(Tail(child.children), Method(name, <<>>, ""))
         IN  _parse_methods_loop(Tail(children), DictSet(methods, name, method))
    ELSE _parse_methods_loop(Tail(children), methods)

_parse_methods(tree) == _parse_methods_loop(tree.children, <<>>)

RECURSIVE _parse_struct_like_loop(_, _)
_parse_struct_like_loop(parts, struct) ==
    IF parts = <<>> THEN struct
    ELSE LET part == Head(parts)
         IN  IF IsTree(part, "annotations")
             THEN _parse_struct_like_loop(Tail(parts),
                      [struct EXCEPT !.annotations = _parse_annotations(part)])
             ELSE IF IsTree(part, "init")
             THEN _parse_struct_like_loop(Tail(parts),
                      [struct EXCEPT !.init = _parse_init(part)])
             ELSE _parse_struct_like_loop(Tail(parts), struct)

\* name = tree.children[1], then the parts tree.children[2:]
_parse_struct_like(tree) ==
    _parse_struct_like_loop(SubSeq(tree.children, 3, Len(tree.children)),
                            Struct(_token_value(tree.children[2]), <<>>, Init_(<<>>)))

\* the Module of one module tree: its name, and its alias when a second
\* child is a module_alias tree
ParseModule(module_tree) ==
    Module(_token_value(module_tree.children[1]),
           ModuleAlias(IF Len(module_tree.children) > 1
                          /\ IsTree(module_tree.children[2], "module_alias")
                       THEN _token_value(module_tree.children[2].children[1])
                       ELSE ""))

RECURSIVE _parse_imports_loop(_, _)
_parse_imports_loop(children, imports) ==
    IF children = <<>> THEN imports
    ELSE IF ~IsTree(Head(children), "from_import")
    THEN _parse_imports_loop(Tail(children), imports)
    ELSE LET child == Head(children)
             pkg == _token_value(_find_children(child, "pkg")[1].children[1])
             module_trees == _find_children(_find_children(child, "modules")[1], "module")
             modules == [k \in 1..Len(module_trees) |-> ParseModule(module_trees[k])]
         IN  _parse_imports_loop(Tail(children),
                                 DictSet(imports, pkg, FromImport(pkg, modules)))

_parse_imports(tree) == _parse_imports_loop(tree.children, <<>>)

\* consts.append(Const(name=children[0], value=children[1])) per const tree
ParseConsts(child) ==
    LET const_trees == _find_children(child, "const")
    IN  [k \in 1..Len(const_trees) |->
           Const(_token_value(const_trees[k].children[1]),
                 _token_value(const_trees[k].children[2]))]

\* one Enum per child of the enums tree that is a class_enum tree, its kvs
\* from the children of that tree that are kv trees
ParseEnums(child) ==
    LET enum_trees == _find_children(child, "class_enum")
    IN  [k \in 1..Len(enum_trees) |->
           LET kv_trees == _find_children(enum_trees[k], "kv")
           IN  Enum(_token_value(enum_trees[k].children[2]),
                    [j \in 1..Len(kv_trees) |->
                       KeyValue(_token_value(kv_trees[j].children[1]),
                                _token_value(kv_trees[j].children[2]))])]

\* one Struct, Union or Exc per child that is a tree of the class rule
ParseStructLikes(child, rule) ==
    LET trees == _find_children(child, rule)
    IN  [k \in 1..Len(trees) |-> _parse_struct_like(trees[k])]

RECURSIVE ParseServiceParts(_, _)
\* for part in service_tree.children[2:]: a methods tree sets methods
ParseServiceParts(parts, methods) ==
    IF parts = <<>> THEN methods
    ELSE IF IsTree(Head(parts), "methods")
    THEN ParseServiceParts(Tail(parts), _parse_methods(Head(parts)))
    ELSE ParseServiceParts(Tail(parts), methods)

ParseServices(child) ==
    LET trees == _find_children(child, "class_service")
    IN  [k \in 1..Len(trees) |->
           Service(_token_value(trees[k].children[2]),
                   ParseServiceParts(SubSeq(trees[k].children, 3, Len(trees[k].children)),
                                     <<>>))]

RECURSIVE BuildLoop(_, _)
\* for child in tree.children: the section of the child's rule is set
BuildLoop(children, pyi) ==
    IF children = <<>> THEN pyi
    ELSE LET child == Head(children)
             next ==
               IF child.kind # "Tree" THEN pyi
               ELSE CASE child.data = "imports" ->
                           [pyi EXCEPT !.imports = _parse_imports(child)]
                      [] child.data = "consts" ->
                           [pyi EXCEPT !.consts = ParseConsts(child)]
                      [] child.data = "enums" ->
                           [pyi EXCEPT !.enums = ParseEnums(child)]
                      [] child.data = "structs" ->
                           [pyi EXCEPT !.structs = ParseStructLikes(child, "class_struct")]
                      [] child.data = "unions" ->
                           [pyi EXCEPT !.unions = ParseStructLikes(child, "class_union")]
                      [] child.data = "exceptions" ->
                           [pyi EXCEPT !.exceptions =
                                          ParseStructLikes(child, "class_exception")]
                      [] child.data = "services" ->
                           [pyi EXCEPT !.services = ParseServices(child)]
                      [] OTHER -> pyi
         IN  BuildLoop(Tail(children), next)

\* the Document of a parse tree
Build(tree) == BuildLoop(tree.children, EmptyPYI)

\* a parse that returns the Document of the sections that precede the one
\* the error is in
parseRecovering(text) ==
    LET r == ParseItems(Rule("start"), text, 1, {EndToken})
        ok == r.ok /\ Lex(text, r.pos, {EndToken}).type = EndToken
        whole == IF ok \/ r.children = <<>> THEN r.children
                 ELSE SubSeq(r.children, 1, Len(r.children) - 1)
    IN  [ok |-> ok, error |-> IF ok THEN "" ELSE "UnexpectedInput",
         pyi |-> Build(Tree("start", whole))]

\* parse(text): the Document, or the exception _PARSER.parse raises
parse(text) ==
    LET r == PARSER_parse(text)
    IN  IF r.ok
        THEN [ok |-> TRUE, error |-> "", pyi |-> Build(r.tree)]
        ELSE [ok |-> FALSE, error |-> "UnexpectedInput", pyi |-> EmptyPYI]

(***************************************************************************)
(* The callers.  A caller builds a Document in memory (plain assignment,   *)
(* append and dict store), renders it, parses the text back and renders    *)
(* the result again; or it is handed a text, parses it and renders the     *)
(* result.                                                                 *)
(***************************************************************************)

VARIABLES pc, doc, lines, text, parsed, recomposed, tree, built

vars == <<pc, doc, lines, text, parsed, recomposed, tree, built>>

\* the most entities a caller puts into a Document one by one
MaxEntities == 2

NoText == [ok |-> FALSE, error |-> "not run", text |-> ""]

NoPYI == [ok |-> FALSE, error |-> "not run", pyi |-> EmptyPYI]

NoTree == Tree("", <<>>)

Entry(key, val) == [key |-> key, val |-> val]

Mod(name, alias) == Module(name, ModuleAlias(alias))

Param(name, type, default) == Parameter(Annotation(name, type), default)

Field(name, type) == Entry(name, Annotation(name, type))

ImportPool ==
    <<FromImport("b.c", <<Mod("y", "z"), Mod("x", "")>>),
      FromImport("a", <<Mod("b", "")>>)>>

ConstPool == <<Const("X", "1"), Const("y", "'s'")>>

EnumPool ==
    <<Enum("Color", <<KeyValue("RED", "1"), KeyValue("BLUE", "2")>>), Enum("E", <<>>)>>

\* the second one holds Parameter(), whose annotation is None
StructPool ==
    <<Struct("S", <<Field("a", "int")>>, Init_(<<Param("a", "int", "None")>>)),
      Struct("N", <<>>, Init_(<<Parameter(None, "")>>))>>

UnionPool ==
    <<Struct("U", <<Field("a", "i"), Field("b", "list[i]")>>,
             Init_(<<Param("a", "i", "None"), Param("b", "list[i]", "None")>>))>>

ExceptionPool == <<Struct("Err", <<>>, Init_(<<>>))>>

ServicePool ==
    <<Service("Svc", <<Entry("m", Method("m", <<Param("a", "int", "1")>>, "int")),
                       Entry("n", Method("n", <<>>, "str"))>>),
      Service("T", <<>>)>>

Sections ==
    {"imports", "consts", "enums", "structs", "unions", "exceptions", "services"}

SectionPool(section) ==
    CASE section = "imports" -> ImportPool
      [] section = "consts" -> ConstPool
      [] section = "enums" -> EnumPool
      [] section = "structs" -> StructPool
      [] section = "unions" -> UnionPool
      [] section = "exceptions" -> ExceptionPool
      [] section = "services" -> ServicePool

\* pyi.imports[e.name] = e for an import, pyi.<section>.append(e) otherwise
AddTo(pyi, section, e) ==
    IF section = "imports"
    THEN [pyi EXCEPT !.imports = DictSet(@, e.name, e)]
    ELSE [pyi EXCEPT ![section] = Append(@, e)]

\* the Document that holds the first entity of the pool of each section of
\* `present` and nothing else
SampleDoc(present) ==
    [section \in Sections |->
       IF section \notin present THEN <<>>
       ELSE IF section = "imports"
       THEN <<Entry(ImportPool[1].name, ImportPool[1])>>
       ELSE <<SectionPool(section)[1]>>]

Size(pyi) ==
    Len(pyi.imports) + Len(pyi.consts) + Len(pyi.enums) + Len(pyi.structs)
      + Len(pyi.unions) + Len(pyi.exceptions) + Len(pyi.services)

Init ==
    /\ pc = "build"
    /\ doc \in {SampleDoc(present) : present \in SUBSET Sections}
    /\ lines = <<>>
    /\ text = NoText
    /\ parsed = NoPYI
    /\ recomposed = NoText
    /\ tree = NoTree
    /\ built = <<>>

\* the caller puts one more entity into the Document
AddEntity ==
    /\ pc = "build"
    /\ Size(doc) < MaxEntities
    /\ \E section \in Sections :
         \E k \in 1..Len(SectionPool(section)) :
             doc' = AddTo(doc, section, SectionPool(section)[k])
    /\ UNCHANGED <<pc, lines, text, parsed, recomposed, tree, built>>

\* text = compose(doc)
Compose ==
    /\ pc = "build"
    /\ text' = compose(doc)
    /\ pc' = "composed"
    /\ UNCHANGED <<doc, lines, parsed, recomposed, tree, built>>

\* parsed = parse(text), when there is a text
Parse ==
    /\ pc = "composed"
    /\ text.ok
    /\ parsed' = parse(text.text)
    /\ pc' = "parsed"
    /\ UNCHANGED <<doc, lines, text, recomposed, tree, built>>

\* recomposed = compose(parsed), when there is a Document
Recompose ==
    /\ pc = "parsed"
    /\ parsed.ok
    /\ recomposed' = compose(parsed.pyi)
    /\ pc' = "done"
    /\ UNCHANGED <<doc, lines, text, parsed, tree, built>>

Next == AddEntity \/ Compose \/ Parse \/ Recompose

Spec == Init /\ [][Next]_vars

(***************************************************************************)
(* The caller that is handed a text: it writes the text line by line and   *)
(* then parses it.                                                         *)
(***************************************************************************)

\* the most lines (or blocks of lines) a text holds after its header
MaxLines == 3

Line(kind, t, name, value, parts) ==
    [kind |-> kind, text |-> t, name |-> name, value |-> value, parts |-> parts]

\* What a caller writes.  An import line names its package and modules, an
\* assignment line (a constant, or a member under an enum head) its name and
\* value, a class head its class, a method block its method, return type and
\* parameters.
LinePool ==
    <<Line("header", "# coding:utf-8\n", "", "", <<>>),
      Line("import", "from b.c import y as z, x\n", "b.c", "",
           <<Mod("y", "z"), Mod("x", "")>>),
      Line("import", "from a import b\n", "a", "", <<Mod("b", "")>>),
      Line("import", "from  a   import v ,w as u\n", "a", "",
           <<Mod("v", ""), Mod("w", "u")>>),
      Line("assign", "X = 1\n", "X", "1", <<>>),
      Line("assign", "    RED = 2\n", "RED", "2", <<>>),
      Line("enumhead", ClassPrefix \o "\nclass Color(Enum):\n", "Color", "", <<>>),
      Line("servicehead", ClassPrefix \o "\nclass Svc(object):\n", "Svc", "", <<>>),
      Line("method", "    def m(self, a: int = 1) -> int:\n        ...\n\n", "m", "int",
           <<Param("a", "int", "1")>>),
      Line("method", "    def m(self, ) -> str:\n        ...\n\n", "m", "str", <<>>),
      \* lines with a wrong or missing fixed literal
      Line("badheader", "# coding: utf8\n", "", "", <<>>),
      Line("bad", "class Color(Enum):\n", "", "", <<>>),
      Line("bad", ClassPrefix \o "\nclass Color(Enumeration):\n", "", "", <<>>),
      Line("bad", "    def m(self, ) -> str:\n        pass\n\n", "", "", <<>>)>>

HeaderLines == {k \in 1..Len(LinePool) : LinePool[k].kind \in {"header", "badheader"}}

BodyLines == (1..Len(LinePool)) \ HeaderLines

\* the text of the lines written
TextOf(ls) == ConcatAll([k \in 1..Len(ls) |-> LinePool[ls[k]].text])

InitText ==
    /\ pc = "write"
    /\ doc = EmptyPYI
    /\ lines \in {<<h>> : h \in HeaderLines}
    /\ text = NoText
    /\ parsed = NoPYI
    /\ recomposed = NoText
    /\ tree = NoTree
    /\ built = <<>>

\* the caller writes one more line
WriteLine ==
    /\ pc = "write"
    /\ Len(lines) <= MaxLines
    /\ \E k \in BodyLines : lines' = Append(lines, k)
    /\ UNCHANGED <<pc, doc, text, parsed, recomposed, tree, built>>

\* the caller hands the text over
Supply ==
    /\ pc = "write"
    /\ text' = [ok |-> TRUE, error |-> "", text |-> TextOf(lines)]
    /\ pc' = "composed"
    /\ UNCHANGED <<doc, lines, parsed, recomposed, tree, built>>

NextText == WriteLine \/ Supply \/ Parse \/ Recompose

SpecText == InitText /\ [][NextText]_vars

(***************************************************************************)
(* What is checked of the caller that starts from a Document (Spec)        *)
(***************************************************************************)

RECURSIVE Pieces(_, _, _)
\* what the "\n" of t[lo..hi] separate: one piece more than there are "\n"
\* (the two halves are split on their own; the last piece of the left half
\* and the first of the right half are one piece)
Pieces(t, lo, hi) ==
    IF lo > hi THEN <<"">>
    ELSE IF lo = hi THEN (IF Char(t, lo) = "\n" THEN <<"", "">> ELSE <<Char(t, lo)>>)
    ELSE LET mid == (lo + hi) \div 2
             left == Pieces(t, lo, mid)
             right == Pieces(t, mid + 1, hi)
         IN  SubSeq(left, 1, Len(left) - 1)
               \o <<left[Len(left)] \o right[1]>>
               \o Tail(right)

\* the lines of a text, each without its "\n"; what follows the last "\n",
\* when there is something, is the last line
TextLines(t) ==
    LET ps == Pieces(t, 1, Len(t))
    IN  IF ps[Len(ps)] = "" THEN SubSeq(ps, 1, Len(ps) - 1) ELSE ps

StartsWith(line, prefix) ==
    Len(line) >= Len(prefix) /\ SubSeq(line, 1, Len(prefix)) = prefix

EndsWith(line, suffix) ==
    Len(line) >= Len(suffix)
      /\ SubSeq(line, Len(line) - Len(suffix) + 1, Len(line)) = suffix

\* how many lines of ls satisfy P
Count(ls, P(_)) == Cardinality({k \in 1..Len(ls) : P(ls[k])})

RECURSIVE Sum(_)
Sum(ns) == IF ns = <<>> THEN 0 ELSE Head(ns) + Sum(Tail(ns))

\* C1: for every Document d, parse(compose(d)) returns a Document equal to
\* d: the same entities in the same sections in the same order.
RoundTrip == pc = "parsed" => parsed.ok /\ parsed.pyi = doc

\* C2: for every Document d, compose(parse(compose(d))) is compose(d), byte
\* for byte.
IdempotentRendering ==
    pc = "done" => recomposed.ok /\ recomposed.text = text.text

\* C3: compose returns text for every Document, a Document that holds a
\* Parameter without annotation included.
ComposeTotal == pc = "composed" => text.ok

\* the lines of the kinds compose writes
IsImportLine(line) == StartsWith(line, "from ")

IsPrefixLine(line) == line = ClassPrefix

IsConstLine(line) ==
    /\ line # ""
    /\ ~StartsWith(line, " ")
    /\ ~StartsWith(line, "#")
    /\ ~StartsWith(line, "from ")
    /\ ~StartsWith(line, "class ")

IsEnumHead(line) == StartsWith(line, "class ") /\ EndsWith(line, "(Enum):")

IsObjectHead(line) == StartsWith(line, "class ") /\ EndsWith(line, "(object):")

IsExceptionHead(line) == StartsWith(line, "class ") /\ EndsWith(line, "(TException):")

IsInitLine(line) == line = "    def __init__(self,"

IsMethodLine(line) == StartsWith(line, "    def ") /\ ~IsInitLine(line)

\* a field of a struct, union or exception, or a member of an enum
IsMemberLine(line) ==
    StartsWith(line, "    ") /\ ~StartsWith(line, "     ") /\ ~StartsWith(line, "    def ")

IsBlankLine(line) == line = ""

StructLikes(pyi) == pyi.structs \o pyi.unions \o pyi.exceptions

\* the blank lines the non-empty sections of a Document ask for: one after
\* the imports, one after the constants, one after each enum, one inside
\* and one after each struct, union and exception, one after each method
\* and one after each service
BlankLinesAsked(pyi) ==
    (IF pyi.imports # <<>> THEN 1 ELSE 0)
      + (IF pyi.consts # <<>> THEN 1 ELSE 0)
      + Len(pyi.enums)
      + 2 * Len(StructLikes(pyi))
      + Sum([k \in 1..Len(pyi.services) |-> Len(pyi.services[k].methods) + 1])

\* those of them at the end of the text, which the right trim removes
BlankLinesTrimmed(pyi) ==
    IF pyi.services # <<>>
    THEN (IF pyi.services[Len(pyi.services)].methods # <<>> THEN 2 ELSE 1)
    ELSE IF Size(pyi) > 0 THEN 1 ELSE 0

\* the first lines of the first non-empty section
FirstSectionLines(pyi) ==
    IF pyi.imports # <<>>
    THEN <<"from " \o pyi.imports[1].key \o " import">>
    ELSE IF pyi.consts # <<>>
    THEN <<pyi.consts[1].name \o " = " \o pyi.consts[1].value>>
    ELSE IF pyi.enums # <<>>
    THEN <<ClassPrefix, "class " \o pyi.enums[1].name \o "(Enum):">>
    ELSE IF pyi.structs # <<>>
    THEN <<ClassPrefix, "class " \o pyi.structs[1].name \o "(object):">>
    ELSE IF pyi.unions # <<>>
    THEN <<ClassPrefix, "class " \o pyi.unions[1].name \o "(object):">>
    ELSE IF pyi.exceptions # <<>>
    THEN <<ClassPrefix, "class " \o pyi.exceptions[1].name \o "(TException):">>
    ELSE IF pyi.services # <<>>
    THEN <<ClassPrefix, "class " \o pyi.services[1].name \o "(object):">>
    ELSE <<>>

\* C7: compose writes, for each section, exactly the lines of its entities
\* (none when the section is empty) and exactly the blank lines the
\* non-empty sections ask for (none for an empty section); the line after
\* the header is the first line of the first non-empty section, and the
\* header is the whole text when every section is empty.
EmptySectionOmission ==
    pc = "composed" /\ text.ok =>
      LET ls == TextLines(text.text)
          first == FirstSectionLines(doc)
      IN  /\ ls[1] = Header
          /\ Count(ls, IsImportLine) = Len(doc.imports)
          /\ Count(ls, IsConstLine) = Len(doc.consts)
          /\ Count(ls, IsEnumHead) = Len(doc.enums)
          /\ Count(ls, IsObjectHead)
               = Len(doc.structs) + Len(doc.unions) + Len(doc.services)
          /\ Count(ls, IsExceptionHead) = Len(doc.exceptions)
          /\ Count(ls, IsInitLine) = Len(StructLikes(doc))
          /\ Count(ls, IsPrefixLine)
               = Len(doc.enums) + Len(StructLikes(doc)) + Len(doc.services)
          /\ Count(ls, IsMethodLine)
               = Sum([k \in 1..Len(doc.services) |-> Len(doc.services[k].methods)])
          /\ Count(ls, IsMemberLine)
               = Sum([k \in 1..Len(doc.enums) |-> Len(doc.enums[k].kvs)])
                   + Sum([k \in 1..Len(StructLikes(doc)) |->
                            Len(StructLikes(doc)[k].annotations)])
          /\ Count(ls, IsBlankLine) = BlankLinesAsked(doc) - BlankLinesTrimmed(doc)
          /\ Len(ls) >= 1 + Len(first)
          /\ first = <<>> => ls = <<Header>>
          /\ Len(first) = 1 => StartsWith(ls[2], first[1])
          /\ Len(first) = 2 => ls[2] = first[1] /\ ls[3] = first[2]

\* a Document with empty sections before, between and after non-empty ones
\* has been rendered
EmptySectionOmissionWitness ==
    /\ pc = "composed" /\ text.ok
    /\ doc.imports = <<>> /\ doc.consts # <<>> /\ doc.enums = <<>>
    /\ doc.structs = <<>> /\ doc.unions = <<>> /\ doc.exceptions # <<>>
    /\ doc.services = <<>>

(***************************************************************************)
(* What is checked of the caller that starts from a text (SpecText)        *)
(***************************************************************************)

Kinds(ls) == [k \in 1..Len(ls) |-> LinePool[ls[k]].kind]

IsImportKind(k) == LinePool[k].kind = "import"

IsEnumHeadKind(k) == LinePool[k].kind = "enumhead"

\* The grammar line by line: the sections in their order.  Where a line of
\* a kind may stand: 1 imports, 2 constants, 3 enums, 4 services; 0: it
\* matches no production there.
LineStep(phase, kind) ==
    CASE kind = "import" -> IF phase = 1 THEN 1 ELSE 0
      [] kind = "assign" -> IF phase \in {1, 2} THEN 2 ELSE IF phase = 3 THEN 3 ELSE 0
      [] kind = "enumhead" -> IF phase \in {1, 2, 3} THEN 3 ELSE 0
      [] kind = "servicehead" -> IF phase \in {1, 2, 3, 4} THEN 4 ELSE 0
      [] kind = "method" -> IF phase = 4 THEN 4 ELSE 0
      [] OTHER -> 0

RECURSIVE LinePhase(_, _)
LinePhase(kinds, phase) ==
    IF kinds = <<>> \/ phase = 0 THEN phase
    ELSE LinePhase(Tail(kinds), LineStep(phase, Head(kinds)))

\* every line matches the production expected where it stands
Conforms(ls) == Kinds(ls)[1] = "header" /\ LinePhase(Tail(Kinds(ls)), 1) # 0

\* C4: for every text in which some line does not match the production
\* expected where it stands (a wrong or missing header, class prefix, base
\* marker or ellipsis line included), parse fails with the syntax error and
\* returns no Document.
AtomicFailure ==
    pc = "parsed" /\ ~Conforms(lines) =>
      ~parsed.ok /\ parsed.error = "UnexpectedInput" /\ parsed.pyi = EmptyPYI

\* a text whose first lines conform (an import, a constant) and whose last
\* line does not has been parsed
AtomicFailureWitness ==
    /\ pc = "parsed" /\ ~parsed.ok
    /\ Len(lines) = 4
    /\ Kinds(lines)[1] = "header" /\ Kinds(lines)[2] = "import"
    /\ Kinds(lines)[3] = "assign" /\ Kinds(lines)[4] = "bad"

\* C5: for every text with a service block that holds two definitions of
\* one method name with different signatures, parse returns a Document whose
\* service has exactly one method of that name, with the parameters and the
\* return type of the later definition.
DuplicateMethods ==
    pc = "parsed" /\ Kinds(lines) = <<"header", "servicehead", "method", "method">>
      /\ lines[3] # lines[4] /\ LinePool[lines[3]].name = LinePool[lines[4]].name =>
      /\ parsed.ok
      /\ Len(parsed.pyi.services) = 1
      /\ parsed.pyi.services[1].name = LinePool[lines[2]].name
      /\ parsed.pyi.services[1].methods
           = <<Entry(LinePool[lines[4]].name,
                     Method(LinePool[lines[4]].name, LinePool[lines[4]].parts,
                            LinePool[lines[4]].value))>>

ImportsOf(ls) == SelectSeq(ls, IsImportKind)

DistinctPackages(ls) ==
    \A i, j \in 1..Len(ImportsOf(ls)) :
        LinePool[ImportsOf(ls)[i]].name = LinePool[ImportsOf(ls)[j]].name => i = j

\* the import line of a package and its modules, as canonical text
CanonModule(m) ==
    IF m.module_alias.alias = "" THEN m.name ELSE m.name \o " as " \o m.module_alias.alias

CanonImport(line) ==
    "from " \o line.name \o " import "
      \o Join([k \in 1..Len(line.parts) |-> CanonModule(line.parts[k])], ", ")

\* C6: for every text whose import lines name distinct packages, parse and
\* then compose write the packages in the order of the text and the modules
\* of each package in the order of its line, each alias on its own module.
ImportOrder ==
    pc = "done" /\ DistinctPackages(lines) =>
      LET imps == ImportsOf(lines)
          n == Len(imps)
          out == TextLines(recomposed.text)
      IN  /\ recomposed.ok
          /\ parsed.pyi.imports
               = [k \in 1..n |->
                    Entry(LinePool[imps[k]].name,
                          FromImport(LinePool[imps[k]].name, LinePool[imps[k]].parts))]
          /\ Len(out) >= n + 1
          /\ \A k \in 1..n : out[k + 1] = CanonImport(LinePool[imps[k]])
          /\ Count(out, IsImportLine) = n

\* two packages not in sorted order, the first with its modules not in
\* sorted order and an alias on the first of them, have gone through parse
\* and compose
ImportOrderWitness ==
    /\ pc = "done"
    /\ DistinctPackages(lines)
    /\ Len(ImportsOf(lines)) = 2
    /\ LinePool[ImportsOf(lines)[1]].name = "b.c"
    /\ LinePool[ImportsOf(lines)[2]].name = "a"

\* C8: for every text with an enum block, parse returns a Document whose
\* enum list holds one Enum of that name with the members of the block in
\* their order, a repeated key as a member of its own.
EnumConstruction ==
    pc = "parsed" /\ Len(lines) >= 2 /\ Kinds(lines)[2] = "enumhead"
      /\ Conforms(lines) /\ Len(SelectSeq(lines, IsEnumHeadKind)) = 1 =>
      /\ parsed.ok
      /\ parsed.pyi.enums
           = <<Enum(LinePool[lines[2]].name,
                    [k \in 1..(Len(lines) - 2) |->
                       KeyValue(LinePool[lines[k + 2]].name, LinePool[lines[k + 2]].value)])>>

\* C9: for every conforming text, the Document parse returns holds the
\* value of each constant as exactly the text of the value in the input.
OpaqueText ==
    pc = "parsed" /\ Len(lines) >= 2 /\ Conforms(lines)
      /\ (\A k \in 2..Len(lines) : Kinds(lines)[k] = "assign") =>
      /\ parsed.ok
      /\ parsed.pyi.consts
           = [k \in 1..(Len(lines) - 1) |->
                Const(LinePool[lines[k + 1]].name, LinePool[lines[k + 1]].value)]

(***************************************************************************)
(* The ordered maps of the builder (SpecBuild): _parse_imports,            *)
(* _parse_annotations and _parse_methods each on the tree of its rule, the *)
(* children of the tree being trees of the shape the grammar gives them.   *)
(***************************************************************************)

\* the most children the tree of a rule holds
MaxChildren == 3

\* the tree of a rule for a text of that rule
RuleTree(rule, t, follow) == ParseItems(<<N(rule)>>, t, 1, follow).children[1]

\* method: "def" IDENT "(self," params ")" "->" type ":" NEWLINE "  ..."
\* NEWLINE: the tokens of the string terminals are filtered out
MethodTree(name, params, type, newline) ==
    Tree("method",
         <<Token("IDENT", name), RuleTree("params", params, {"RPAR"}),
           RuleTree("type", type, {"COLON"}), Token("NEWLINE", "\n"),
           Token("NEWLINE", newline)>>)

ChildPool(rule) ==
    CASE rule = "imports" ->
           <<RuleTree("from_import", "from a import b\n", {EndToken}),
             RuleTree("from_import", "from a import c as d, e\n", {EndToken}),
             RuleTree("from_import", "from b.c import x\n", {EndToken})>>
      [] rule = "annotations" ->
           <<RuleTree("annotation", "a: int", {EndToken}),
             RuleTree("annotation", "a: list[str]", {EndToken}),
             RuleTree("annotation", "b: int", {EndToken})>>
      [] rule = "methods" ->
           <<MethodTree("m", "a: int = 1)", "int", "\n"),
             MethodTree("m", ")", "str", "\n\n"),
             MethodTree("n", ")", "str", "\n")>>

InitBuild ==
    /\ pc = "collect"
    /\ doc = EmptyPYI
    /\ lines = <<>>
    /\ text = NoText
    /\ parsed = NoPYI
    /\ recomposed = NoText
    /\ tree \in {Tree(rule, <<>>) : rule \in {"imports", "annotations", "methods"}}
    /\ built = <<>>

\* the tree gets one more child
AddChild ==
    /\ pc = "collect"
    /\ Len(tree.children) < MaxChildren
    /\ \E k \in 1..Len(ChildPool(tree.data)) :
         tree' = Tree(tree.data, Append(tree.children, ChildPool(tree.data)[k]))
    /\ UNCHANGED <<pc, doc, lines, text, parsed, recomposed, built>>

\* built = _parse_imports(tree)
BuildImports ==
    /\ pc = "collect"
    /\ tree.data = "imports"
    /\ built' = _parse_imports(tree)
    /\ pc' = "built"
    /\ UNCHANGED <<doc, lines, text, parsed, recomposed, tree>>

\* built = _parse_annotations(tree)
BuildAnnotations ==
    /\ pc = "collect"
    /\ tree.data = "annotations"
    /\ built' = _parse_annotations(tree)
    /\ pc' = "built"
    /\ UNCHANGED <<doc, lines, text, parsed, recomposed, tree>>

\* built = _parse_methods(tree)
BuildMethods ==
    /\ pc = "collect"
    /\ tree.data = "methods"
    /\ built' = _parse_methods(tree)
    /\ pc' = "built"
    /\ UNCHANGED <<doc, lines, text, parsed, recomposed, tree>>

NextBuild == AddChild \/ BuildImports \/ BuildAnnotations \/ BuildMethods

SpecBuild == InitBuild /\ [][NextBuild]_vars

(***************************************************************************)
(* What is checked of the ordered maps (SpecBuild)                         *)
(***************************************************************************)

\* the entry a child gives when it is the only child of the tree
Alone(child) ==
    LET t == Tree(tree.data, <<child>>)
    IN  (CASE tree.data = "imports" -> _parse_imports(t)
           [] tree.data = "annotations" -> _parse_annotations(t)
           [] tree.data = "methods" -> _parse_methods(t))[1]

ChildKeys == [k \in 1..Len(tree.children) |-> Alone(tree.children[k]).key]

FirstOccurrences == {i \in 1..Len(ChildKeys) : \A j \in 1..(i - 1) : ChildKeys[j] # ChildKeys[i]}

LastOccurrences ==
    {i \in 1..Len(ChildKeys) : \A j \in (i + 1)..Len(ChildKeys) : ChildKeys[j] # ChildKeys[i]}

\* the keys at the positions S, in the order of the positions
KeysAt(S) ==
    LET order == CHOOSE f \in [1..Cardinality(S) -> S] :
                     \A a, b \in 1..Cardinality(S) : a < b => f[a] < f[b]
    IN  [k \in 1..Cardinality(S) |-> ChildKeys[order[k]]]

\* the value the last child of a key gives
LastValue(key) ==
    Alone(tree.children[CHOOSE i \in LastOccurrences : ChildKeys[i] = key]).val

LaterValueReplaces == \A k \in 1..Len(built) : built[k].val = LastValue(built[k].key)

====
